---- MODULE Spec2Model ----
(***************************************************************************)
(* A model of anvil.circadian.CircadianAnalysis (src/anvil/circadian.py).  *)
(*                                                                         *)
(* Numbers.  The code works on floats (IEEE 754 doubles).  The model keeps *)
(* for every float the exact number it stands for, and computes the double *)
(* itself wherever the rounding can change what the code does:             *)
(*   - a decimal time x (hours) is kept as the integer 60 * x, the number  *)
(*     of sixtieths of an hour (hour + minute/60  ->  60*hour + minute);   *)
(*     Double gives the double of it;                                      *)
(*   - a mean is the fraction [num, den] = sum / count; a fraction whose   *)
(*     den is 0 is NaN, and every comparison with NaN is false;            *)
(*     mean_double is the double Series.mean() returns;                    *)
(*   - a standard deviation (pandas: ddof = 1) is the record [n, V] of the *)
(*     count n and V = n*sum(x^2) - sum(x)^2, standing for                 *)
(*     sqrt(V / (n*(n-1))); it is NaN when n <= 1; std_double is the       *)
(*     double Series.std() returns.                                        *)
(* A comparison of floats in the code is the same comparison of the exact  *)
(* numbers, cross-multiplied, when the exact numbers differ, and the       *)
(* comparison of the doubles when the exact numbers are equal.             *)
(*                                                                         *)
(* Tables.  A DataFrame is the sequence of its rows, a row is a record, a  *)
(* Series is a sequence of values.  A timestamp is a record                *)
(* [day, hour, minute, second], day counted from 2021-01-01.               *)
(***************************************************************************)
EXTENDS Integers, Sequences, FiniteSets

VARIABLES
    pc,             \* position of the running call
    df,             \* the event table: rows [user_id, target, completion_time]
    min_samples,    \* calculate_srm's min_samples argument
    srm_loop,       \* calculate_srm: one record per iteration of its for loop
    srm,            \* calculate_srm: what the call gave its caller
    start_date,     \* rolling_srm_across_users: start_date argument
    how_many_days,  \* rolling_srm_across_users: how_many_days argument
    i,              \* rolling_srm_across_users: the loop index
    srm_df,         \* rolling_srm_across_users: the table built so far
    hourly,         \* IS / IV input table: rows [value, hour]
    stability,      \* what inter_daily_stability gave its caller
    variability     \* what intra_daily_variability gave its caller

\* anvil.misc.Utils (src/anvil/misc.py) and the comparison of two tables
VARIABLES
    filter_in,      \* outlier_filtering: df of the outermost call
    filter_df,      \* outlier_filtering: df of the current call
    filtering_f,    \* outlier_filtering: the filtering function
    is_recursive,   \* outlier_filtering: is_recursive argument
    depth,          \* outlier_filtering: number of calls entered
    filtered,       \* outlier_filtering: the table returned
    indexed,        \* get_df_slices: df, as the sequence of its index labels
    sorted_slices,  \* get_df_slices: sorted_slices argument
    index,          \* get_df_slices: the loop variable
    slices,         \* get_df_slices: the slices yielded so far
    df_alt,         \* a second event table, for comparing two calls
    window,         \* the window index of the compared calls
    across,         \* calculate_srm_across_users on the window of df
    across_alt      \* calculate_srm_across_users on the window of df_alt

other_vars == <<filter_in, filter_df, filtering_f, is_recursive, depth, filtered,
                indexed, sorted_slices, index, slices,
                df_alt, window, across, across_alt>>

vars == <<pc, df, min_samples, srm_loop, srm, start_date, how_many_days, i,
          srm_df, hourly, stability, variability, other_vars>>

NoTable == [kind |-> "none", rows |-> <<>>]

\* the variables of the operations that are not running
OtherIdle ==
    /\ filter_in = <<>>
    /\ filter_df = <<>>
    /\ filtering_f = "keep_all"
    /\ is_recursive = FALSE
    /\ depth = 0
    /\ filtered = <<>>
    /\ indexed = <<>>
    /\ sorted_slices = <<>>
    /\ index = 0
    /\ slices = <<>>
    /\ df_alt = <<>>
    /\ window = 0
    /\ across = NoTable
    /\ across_alt = NoTable

(***************************************************************************)
(* Bounds of the model.                                                    *)
(***************************************************************************)
MaxEvents == 10     \* rows of the slice handed to calculate_srm
MaxRows == 5        \* rows of the table handed to rolling_srm_across_users
MaxDays == 2        \* largest how_many_days
MaxLen == 4         \* rows of the table handed to IS / IV

(***************************************************************************)
(* Program constants.                                                      *)
(***************************************************************************)
Scale == 60             \* sixtieths of an hour per hour (minute/60)
hit_range == 45         \* 45/60 hour, in sixtieths
window_days == 7        \* datetime.timedelta(days=7)
hour_count == 24

(***************************************************************************)
(* Sequences and fractions.                                                *)
(***************************************************************************)
RECURSIVE SumSeq(_)
SumSeq(s) == IF s = <<>> THEN 0 ELSE s[1] + SumSeq(Tail(s))

MapSeq(s, f(_)) == [k \in 1..Len(s) |-> f(s[k])]

CHOOSEMin(S) == CHOOSE x \in S : \A y \in S : x <= y

RECURSIVE SortedSeq(_)
SortedSeq(S) ==
    IF S = {} THEN <<>>
    ELSE LET m == CHOOSEMin(S) IN <<m>> \o SortedSeq(S \ {m})

NaN == [num |-> 0, den |-> 0]
IsNaN(q) == q.den = 0

(***************************************************************************)
(* Natural numbers of any size, for the 53-bit significands of doubles:    *)
(* little-endian sequences of digits in base 2^14 without a leading zero   *)
(* digit (<<>> is 0).                                                      *)
(***************************************************************************)
BaseBits == 14
Base == 16384

RECURSIVE BigNorm(_)
BigNorm(a) ==
    IF a # <<>> /\ a[Len(a)] = 0 THEN BigNorm(SubSeq(a, 1, Len(a) - 1)) ELSE a

RECURSIVE BigOf(_)
BigOf(k) == IF k = 0 THEN <<>> ELSE <<k % Base>> \o BigOf(k \div Base)

RECURSIVE BigAddCarry(_, _, _)
BigAddCarry(a, b, c) ==
    IF a = <<>> /\ b = <<>> THEN (IF c = 0 THEN <<>> ELSE <<c>>)
    ELSE LET t == (IF a = <<>> THEN 0 ELSE a[1]) + (IF b = <<>> THEN 0 ELSE b[1]) + c
         IN  <<t % Base>> \o BigAddCarry(IF a = <<>> THEN a ELSE Tail(a),
                                         IF b = <<>> THEN b ELSE Tail(b),
                                         t \div Base)

BigAdd(a, b) == BigAddCarry(a, b, 0)

\* a - b - c for a >= b + c, the leading zero digits kept
RECURSIVE BigSubBorrow(_, _, _)
BigSubBorrow(a, b, c) ==
    IF a = <<>> THEN <<>>
    ELSE LET t == a[1] - (IF b = <<>> THEN 0 ELSE b[1]) - c
         IN  <<t % Base>> \o BigSubBorrow(Tail(a), IF b = <<>> THEN b ELSE Tail(b),
                                          IF t < 0 THEN 1 ELSE 0)

BigSub(a, b) == BigNorm(BigSubBorrow(a, b, 0))

\* -1, 0, 1 as a < b, a = b, a > b
RECURSIVE BigCmp(_, _)
BigCmp(a, b) ==
    IF Len(a) # Len(b) THEN (IF Len(a) < Len(b) THEN -1 ELSE 1)
    ELSE IF a = <<>> THEN 0
    ELSE IF a[Len(a)] # b[Len(b)] THEN (IF a[Len(a)] < b[Len(b)] THEN -1 ELSE 1)
    ELSE BigCmp(BigNorm(SubSeq(a, 1, Len(a) - 1)), BigNorm(SubSeq(b, 1, Len(b) - 1)))

\* a * k + c for 0 <= k, c < 2^16
RECURSIVE BigMulSmall(_, _, _)
BigMulSmall(a, k, c) ==
    IF a = <<>> THEN BigOf(c)
    ELSE LET t == a[1] * k + c
         IN  <<t % Base>> \o BigMulSmall(Tail(a), k, t \div Base)

RECURSIVE BigMul(_, _)
BigMul(a, b) ==
    IF a = <<>> \/ b = <<>> THEN <<>>
    ELSE LET rest == BigMul(a, Tail(b))
         IN  BigAdd(BigNorm(BigMulSmall(a, b[1], 0)),
                    IF rest = <<>> THEN <<>> ELSE <<0>> \o rest)

\* quotient (leading zero digits kept) and remainder of a by n, 0 < n < 2^16,
\* r being the remainder carried in from the digits above
RECURSIVE BigDivRem(_, _, _)
BigDivRem(a, n, r) ==
    IF a = <<>> THEN [q |-> <<>>, r |-> r]
    ELSE LET cur == r * Base + a[Len(a)]
             rest == BigDivRem(SubSeq(a, 1, Len(a) - 1), n, cur % n)
         IN  [q |-> Append(rest.q, cur \div n), r |-> rest.r]

BigDivSmall(a, n) ==
    LET d == BigDivRem(a, n, 0) IN [q |-> BigNorm(d.q), r |-> d.r]

\* a * 2^k
BigShl(a, k) ==
    IF a = <<>> THEN <<>>
    ELSE [j \in 1..(k \div BaseBits) |-> 0]
            \o BigNorm(BigMulSmall(a, 2 ^ (k % BaseBits), 0))

\* a \div 2^k
BigShr(a, k) ==
    IF Len(a) <= k \div BaseBits THEN <<>>
    ELSE BigDivSmall(SubSeq(a, (k \div BaseBits) + 1, Len(a)), 2 ^ (k % BaseBits)).q

\* a % 2^k # 0
BigLowBits(a, k) ==
    \/ \E j \in 1..(k \div BaseBits) : j <= Len(a) /\ a[j] # 0
    \/ /\ Len(a) > k \div BaseBits
       /\ a[(k \div BaseBits) + 1] % (2 ^ (k % BaseBits)) # 0

RECURSIVE BitLenSmall(_)
BitLenSmall(k) == IF k = 0 THEN 0 ELSE 1 + BitLenSmall(k \div 2)

BitLen(a) ==
    IF a = <<>> THEN 0 ELSE BaseBits * (Len(a) - 1) + BitLenSmall(a[Len(a)])

BigIsOdd(a) == a # <<>> /\ a[1] % 2 = 1

(***************************************************************************)
(* IEEE 754 doubles (Python float, numpy float64), round to nearest even.  *)
(* A finite double is sign * man * 2^exp with man of exactly 53 bits, or   *)
(* man = <<>> for 0; the values of the program are times of day and small  *)
(* counts, far from overflow and from the subnormal range.                 *)
(***************************************************************************)
Precision == 53

FNaN == [nan |-> TRUE, sign |-> 1, man |-> <<>>, exp |-> 0]
FZero == [nan |-> FALSE, sign |-> 1, man |-> <<>>, exp |-> 0]

\* the double sign * q * 2^e for q of 53 bits, or of 54 bits after the carry
\* of a rounding
FRoundCarry(sign, q, e) ==
    IF BitLen(q) > Precision
    THEN [nan |-> FALSE, sign |-> sign, man |-> BigShr(q, 1), exp |-> e + 1]
    ELSE [nan |-> FALSE, sign |-> sign, man |-> q, exp |-> e]

\* q, the upper 53 bits of a, the r bits below them rounded off: up when the
\* first of them (guard) is set and either a bit below it (sticky) or the
\* last bit of q is
FRoundCut(sign, a, e, r, q) ==
    FRoundCarry(sign,
                IF BigIsOdd(BigShr(a, r - 1)) /\ (BigLowBits(a, r - 1) \/ BigIsOdd(q))
                THEN BigAdd(q, <<1>>) ELSE q,
                e + r)

\* the double nearest to sign * a * 2^e, ties to even, a having len bits
FRoundLen(sign, a, e, len) ==
    IF a = <<>> THEN FZero
    ELSE IF len <= Precision
    THEN [nan |-> FALSE, sign |-> sign, man |-> BigShl(a, Precision - len),
          exp |-> e - (Precision - len)]
    ELSE FRoundCut(sign, a, e, len - Precision, BigShr(a, len - Precision))

\* the double nearest to sign * a * 2^e, ties to even
FRound(sign, a, e) == FRoundLen(sign, a, e, BitLen(a))

\* float(k) for an int k
FOfInt(k) == FRound(IF k < 0 THEN -1 ELSE 1, BigOf(IF k < 0 THEN -k ELSE k), 0)

FSignum(x) == IF x.man = <<>> THEN 0 ELSE x.sign

FMinExp(x, y) ==
    IF x.man = <<>> THEN y.exp
    ELSE IF y.man = <<>> THEN x.exp
    ELSE IF x.exp < y.exp THEN x.exp ELSE y.exp

\* the significand of x for the exponent e <= x.exp
FAligned(x, e) == IF x.man = <<>> THEN <<>> ELSE BigShl(x.man, x.exp - e)

\* the sum of two numbers of signs sx and sy (0 for the number 0) and of
\* significands a and b for the exponent e
FAddAligned(sx, sy, a, b, e) ==
    FRound(IF sx * sy >= 0 THEN (IF sx + sy < 0 THEN -1 ELSE 1)
           ELSE IF BigCmp(a, b) >= 0 THEN sx ELSE sy,
           IF sx * sy >= 0 THEN BigAdd(a, b)
           ELSE IF BigCmp(a, b) >= 0 THEN BigSub(a, b) ELSE BigSub(b, a),
           e)

\* x + y
FAdd(x, y) ==
    IF x.nan \/ y.nan THEN FNaN
    ELSE FAddAligned(FSignum(x), FSignum(y), FAligned(x, FMinExp(x, y)),
                     FAligned(y, FMinExp(x, y)), FMinExp(x, y))

FNeg(x) == [x EXCEPT !.sign = -x.sign]

\* x - y
FSub(x, y) == FAdd(x, FNeg(y))

\* x * y
FMul(x, y) ==
    IF x.nan \/ y.nan THEN FNaN
    ELSE FRound(x.sign * y.sign, BigMul(x.man, y.man), x.exp + y.exp)

\* the double nearest to sign * (d.q or, when d.r is not 0, a little more
\* than d.q) * 2^(e + 1): the lowest bit of the significand handed to FRound
\* says that a division, or a square root, left a remainder
FRoundInexact(sign, q, exact, e) ==
    FRound(sign, BigMulSmall(q, 2, IF exact THEN 0 ELSE 1), e)

FDivRound(sign, d, e) == FRoundInexact(sign, d.q, d.r = 0, e)

\* x / n for an int (or a double of integer value) 0 < n < 2^14
FDivInt(x, n) ==
    IF x.nan THEN FNaN
    ELSE FDivRound(x.sign, BigDivSmall(BigShl(x.man, 16), n), x.exp - 17)

\* One binary digit of an integer square root, digit by digit from the
\* top: st.rem is the part of the number not yet accounted for by the digits
\* found, st.res the digits found times 2^(j + 1); the digit of weight 2^j
\* is 1 when st.rem holds t = st.res + 4^j, bit being 4^j
SqrtTake(st, bit, t) ==
    IF BigCmp(st.rem, t) >= 0
    THEN [rem |-> BigSub(st.rem, t), res |-> BigAdd(BigShr(st.res, 1), bit)]
    ELSE [rem |-> st.rem, res |-> BigShr(st.res, 1)]

SqrtBit(st, bit) == SqrtTake(st, bit, BigAdd(st.res, bit))

SqrtDigit(st, j) == SqrtBit(st, BigShl(<<1>>, 2 * j))

\* the eight digits of weights 2^j down to 2^(j - 7)
SqrtDigits(st, j) ==
    SqrtDigit(SqrtDigit(SqrtDigit(SqrtDigit(SqrtDigit(SqrtDigit(SqrtDigit(
        SqrtDigit(st, j), j - 1), j - 2), j - 3), j - 4), j - 5), j - 6), j - 7)

\* the digits of weights 2^j down to 2^0, j + 1 a multiple of 8: in the end
\* res is the integer square root and rem what the number exceeds its
\* square by; nxt is the state after the digits down to 2^(j - 7)
RECURSIVE BigSqrtRem(_, _)
RECURSIVE BigSqrtNext(_, _)
BigSqrtRem(st, j) == IF j < 0 THEN st ELSE BigSqrtNext(SqrtDigits(st, j), j)

BigSqrtNext(nxt, j) ==
    IF nxt.rem = <<>> THEN [rem |-> <<>>, res |-> BigShr(nxt.res, j - 7)]
    ELSE BigSqrtRem(nxt, j - 8)

FSqrtRound(s, e) == FRoundInexact(1, s.res, s.rem = <<>>, e)

\* the root of the significand of x shifted by k bits, x.exp - k even
FSqrtShifted(x, k) ==
    FSqrtRound(BigSqrtRem([rem |-> BigShl(x.man, k), res |-> <<>>], 55),
               ((x.exp - k) \div 2) - 1)

\* sqrt(x) for x >= 0: the root of the significand shifted to 110 or 111
\* bits has 55 or 56 bits
FSqrt(x) ==
    IF x.nan \/ x.sign < 0 THEN FNaN
    ELSE IF x.man = <<>> THEN FZero
    ELSE FSqrtShifted(x, IF (x.exp - 57) % 2 = 0 THEN 57 ELSE 58)

\* -1, 0, 1 as x < y, x = y, x > y, for x and y not NaN
FCmp(x, y) ==
    IF FSignum(x) # FSignum(y) THEN (IF FSignum(x) < FSignum(y) THEN -1 ELSE 1)
    ELSE IF FSignum(x) = 0 THEN 0
    ELSE FSignum(x) * BigCmp(FAligned(x, FMinExp(x, y)), FAligned(y, FMinExp(x, y)))

\* x <= y and x < y; False when one of them is NaN
FLeq(x, y) == ~x.nan /\ ~y.nan /\ FCmp(x, y) <= 0
FLess(x, y) == ~x.nan /\ ~y.nan /\ FCmp(x, y) < 0

(***************************************************************************)
(* pandas: Series.mean(), Series.std(), DataFrame.groupby(col).            *)
(***************************************************************************)
\* the sum of a float64 array a from position k on, added to acc from left
\* to right
RECURSIVE FSumFrom(_, _, _)
FSumFrom(a, k, acc) ==
    IF k > Len(a) THEN acc ELSE FSumFrom(a, k + 1, FAdd(acc, a[k]))

\* the eight partial sums r of numpy's pairwise sum, each with one value of
\* every whole block of eight values of a from position k on
RECURSIVE np_blocks(_, _, _)
np_blocks(a, k, r) ==
    IF k + 7 > Len(a) THEN r
    ELSE np_blocks(a, k + 8, [j \in 1..8 |-> FAdd(r[j], a[k + j - 1])])

\* the n partial sums r[lo], ..., r[lo + n - 1] added in pairs:
\* ((r[1] + r[2]) + (r[3] + r[4])) + ((r[5] + r[6]) + (r[7] + r[8]))
RECURSIVE np_pairs(_, _, _)
np_pairs(r, lo, n) ==
    IF n = 1 THEN r[lo]
    ELSE FAdd(np_pairs(r, lo, n \div 2), np_pairs(r, lo + (n \div 2), n \div 2))

\* numpy's sum of a float64 array of at most 128 values: from left to right
\* for fewer than 8 values; else eight partial sums over the whole blocks of
\* eight values, added in pairs, and the values after the last whole block
\* added to that from left to right
np_sum(a) ==
    FSumFrom(a,
             IF Len(a) < 8 THEN 1 ELSE Len(a) - (Len(a) % 8) + 1,
             IF Len(a) < 8 THEN FZero
             ELSE np_pairs(np_blocks(a, 9, SubSeq(a, 1, 8)), 1, 8))

\* Series.mean() of the doubles a: sum / count, NaN for an empty series
mean_double(a) == IF a = <<>> THEN FNaN ELSE FDivInt(np_sum(a), Len(a))

\* x**2
FSquare(x) == FMul(x, x)

\* the squares (avg - values)**2 of Series.std()
np_sqr(a, avg) == [j \in 1..Len(a) |-> FSquare(FSub(avg, a[j]))]

\* Series.std() (ddof = 1) of the doubles a: with avg = sum / count,
\* sqrt(sum((avg - values)**2) / (count - 1)); NaN for fewer than two values
std_double(a) ==
    IF Len(a) <= 1 THEN FNaN
    ELSE FSqrt(FDivInt(np_sum(np_sqr(a, FDivInt(np_sum(a), Len(a)))), Len(a) - 1))

\* The mean and the standard deviation of a series as exact numbers: the
\* mean is num / den, the squared standard deviation V / (n * (n - 1)) with
\* V = n * (sum of squares) - (sum)^2.  The program works with the doubles
\* above; the exact numbers serve to tell when a comparison of the program
\* does not depend on the rounding of the doubles.
\* Series.mean(): NaN for an empty series
mean_of(series) == [num |-> SumSeq(series), den |-> Len(series)]

\* Series.std() (ddof = 1): NaN for fewer than two values
std_of(series) ==
    LET n == Len(series)
        S == SumSeq(series)
        Q == SumSeq(MapSeq(series, LAMBDA x : x * x))
    IN  [n |-> n, V |-> n * Q - S * S]

StdIsNaN(sd) == sd.n <= 1

\* df.groupby(col): the pairs (k, v) in ascending key order, v the rows of
\* df whose col is k, in df's order
groupby(table, col) ==
    LET keys == SortedSeq({table[r][col] : r \in DOMAIN table})
    IN  [g \in 1..Len(keys) |->
            [k |-> keys[g],
             v |-> SelectSeq(table, LAMBDA row : row[col] = keys[g])]]

(***************************************************************************)
(* CircadianAnalysis.inter_daily_stability and intra_daily_variability     *)
(*                                                                         *)
(* With N values of sum S and sum of squares Q, sum((x - mean)**2) is the  *)
(* fraction (N*Q - S*S) / N.  For an empty table every operand of the last *)
(* division is the Python int 0 (sum of nothing) and 0/0 raises            *)
(* ZeroDivisionError; otherwise the operands are floats, and x/0.0 is NaN  *)
(* for x = 0 and inf for x > 0.                                            *)
(***************************************************************************)
FracAdd(a, b) == [num |-> a.num * b.den + b.num * a.den, den |-> a.den * b.den]

RECURSIVE FracSum(_)
FracSum(l) == IF l = <<>> THEN [num |-> 0, den |-> 1] ELSE FracAdd(l[1], FracSum(Tail(l)))

\* sum((series - series.mean())**2), for a series that is not empty
sum_sq_dev(series) ==
    LET n == Len(series)
        S == SumSeq(series)
        Q == SumSeq(MapSeq(series, LAMBDA x : x * x))
    IN  [num |-> n * Q - S * S, den |-> n]

\* nom/denom for fractions nom >= 0 and denom >= 0; ints says that both are
\* Python ints
divide(nom, denom, ints) ==
    IF denom.num = 0
    THEN [kind |-> IF ints THEN "ZeroDivisionError"
                   ELSE IF nom.num = 0 THEN "NaN" ELSE "inf",
          num |-> 0, den |-> 0]
    ELSE [kind |-> "value", num |-> nom.num * denom.den, den |-> nom.den * denom.num]

\* (v[value_col].mean() - mean)**2 for the group v of one hour
hour_term(v, S, N) ==
    LET Sh == SumSeq(MapSeq(v, LAMBDA row : row.value))
        nh == Len(v)
    IN  [num |-> (Sh * N - S * nh) * (Sh * N - S * nh), den |-> nh * N * nh * N]

\* mutant: every hour of the day absent from the table counted with mean 0
inter_daily_stability_zero_filled(table) ==
    LET N == Len(table)
        values == MapSeq(table, LAMBDA row : row.value)
        S == SumSeq(values)
        denom_sum_val == IF N = 0 THEN [num |-> 0, den |-> 1] ELSE sum_sq_dev(values)
        denominator == [num |-> hour_count * denom_sum_val.num, den |-> denom_sum_val.den]
        present == groupby(table, "hour")
        l == MapSeq(present, LAMBDA g : hour_term(g.v, S, N))
        suml == FracAdd(FracSum(l),
                        [num |-> (hour_count - Len(present)) * S * S, den |-> N * N])
        nom == [num |-> suml.num * N, den |-> suml.den]
    IN  divide(nom, denominator, N = 0)

inter_daily_stability(table) ==
    LET N == Len(table)
        values == MapSeq(table, LAMBDA row : row.value)
        S == SumSeq(values)
        denom_sum_val == IF N = 0 THEN [num |-> 0, den |-> 1] ELSE sum_sq_dev(values)
        denominator == [num |-> hour_count * denom_sum_val.num, den |-> denom_sum_val.den]
        l == MapSeq(groupby(table, "hour"), LAMBDA g : hour_term(g.v, S, N))
        suml == FracSum(l)
        nom == [num |-> suml.num * N, den |-> suml.den]
    IN  divide(nom, denominator, N = 0)

\* sum of (x[t] - x[t-1])**2 over t >= 2: the first difference is NaN and
\* fillna(0) makes it 0
RECURSIVE sum_sq_diff(_)
sum_sq_diff(x) ==
    IF Len(x) <= 1 THEN 0
    ELSE (x[2] - x[1]) * (x[2] - x[1]) + sum_sq_diff(Tail(x))

intra_daily_variability(table) ==
    LET N == Len(table)
        values == MapSeq(table, LAMBDA row : row.value)
        nom == [num |-> N * sum_sq_diff(values), den |-> 1]
        ssd == IF N = 0 THEN [num |-> 0, den |-> 1] ELSE sum_sq_dev(values)
        denom == [num |-> (N - 1) * ssd.num, den |-> ssd.den]
    IN  divide(nom, denom, N = 0)

(***************************************************************************)
(* CircadianAnalysis._convert_timestamp_to_decimal                         *)
(*                                                                         *)
(* A decimal time is the double z.hour + z.minute/60.  It is a function of *)
(* the minute of the day 60 * z.hour + z.minute, and a series of the model *)
(* holds that integer for each of its doubles; Double gives the double.    *)
(***************************************************************************)
\* mutant: z.hour + z.minute, the division by 60 forgotten
DecimalOf_no_division(z) == Scale * z.hour + Scale * z.minute

\* z.hour + z.minute/60, in sixtieths of an hour
DecimalOf(z) == Scale * z.hour + z.minute

_convert_timestamp_to_decimal(timeseries) == MapSeq(timeseries, DecimalOf)

\* the double hour + minute/60 of the decimal time of k sixtieths
Double(k) == FAdd(FOfInt(k \div Scale), FDivInt(FOfInt(k % Scale), Scale))

\* the float64 values of a series of decimal times
Doubles(series) == [j \in 1..Len(series) |-> Double(series[j])]

(***************************************************************************)
(* CircadianAnalysis._purge_srm_outliers and _srm_preprocssing             *)
(*                                                                         *)
(* The limits are the doubles mean -/+ 1.5 * std, mean and std those of    *)
(* the same n values.  As exact numbers, with x = n*(z - mean) and         *)
(* std = sqrt(V / (n*(n-1))):                                              *)
(*   x/n <= 1.5*std  <=>  x <= 0  \/  4*(n-1)*x^2 <= 9*n*V                 *)
(*   std < 0.5       <=>  4*V < 60*60*n*(n-1)     (std in sixtieths)       *)
(* For times of day in whole minutes and at most 16 samples, two sides     *)
(* of such a comparison that differ as exact numbers differ by more than   *)
(* 10^-10 hours, and the doubles of the program are within 10^-12 of the   *)
(* exact numbers: the doubles then compare as the exact numbers do.  When  *)
(* the two sides are equal as exact numbers (a sample exactly on a limit,  *)
(* a standard deviation of exactly 0.5) the rounding of the doubles        *)
(* decides, and the comparison is done on the doubles.                     *)
(***************************************************************************)
\* -1, 0, 1 as x/sd.n is below, equal to, above 1.5 * sd, as exact numbers
CmpOneAndHalfStd(x, sd) ==
    IF x < 0 THEN -1
    ELSE IF 4 * (sd.n - 1) * x * x < 9 * sd.n * sd.V THEN -1
    ELSE IF 4 * (sd.n - 1) * x * x = 9 * sd.n * sd.V THEN 0
    ELSE 1

\* 0.5 and 1.5
Half == FDivInt(FOfInt(1), 2)
OneAndHalf == FDivInt(FOfInt(3), 2)

\* mutant: the purge skipped also when std is exactly 0.5
StdBelowHalf_or_equal(sd, std) ==
    /\ ~StdIsNaN(sd)
    /\ IF 4 * sd.V = Scale * Scale * sd.n * (sd.n - 1)
       THEN FLeq(std, Half)
       ELSE 4 * sd.V < Scale * Scale * sd.n * (sd.n - 1)

\* std < 0.5 for the double std, sd being the same standard deviation as an
\* exact number; False when std is NaN
StdBelowHalf(sd, std) ==
    /\ ~StdIsNaN(sd)
    /\ IF 4 * sd.V = Scale * Scale * sd.n * (sd.n - 1)
       THEN FLess(std, Half)
       ELSE 4 * sd.V < Scale * Scale * sd.n * (sd.n - 1)

\* filtering_f of _purge_srm_outliers: z >= lower and z <= upper for the
\* doubles lower and upper, m and sd being the mean and the standard
\* deviation they were computed from as exact numbers; False when std is NaN
purge_filtering_f(z, m, sd, lower, upper) ==
    /\ ~IsNaN(m)
    /\ ~StdIsNaN(sd)
    /\ IF CmpOneAndHalfStd(m.num - m.den * z, sd) = 0
       THEN FLeq(lower, Double(z))
       ELSE CmpOneAndHalfStd(m.num - m.den * z, sd) < 0
    /\ IF CmpOneAndHalfStd(m.den * z - m.num, sd) = 0
       THEN FLeq(Double(z), upper)
       ELSE CmpOneAndHalfStd(m.den * z - m.num, sd) < 0

\* series[series.map(filtering_f)]
_purge_srm_outliers(series, m, sd, lower_limit, upper_limit) ==
    SelectSeq(series, LAMBDA z :
        purge_filtering_f(z, m, sd, lower_limit, upper_limit))

\* the body of _srm_preprocssing after the conversion: mean and std of the
\* series as doubles, the skip, the limits and the purge
purge_with(series, mean, std) ==
    IF StdBelowHalf(std_of(series), std) THEN series
    ELSE _purge_srm_outliers(series, mean_of(series), std_of(series),
                             FSub(mean, FMul(OneAndHalf, std)),
                             FAdd(mean, FMul(OneAndHalf, std)))

purge_once(series) ==
    purge_with(series, mean_double(Doubles(series)), std_double(Doubles(series)))

\* mutant: the purge repeated until it removes nothing
RECURSIVE purge_to_fixed_point(_)
purge_to_fixed_point(series) ==
    IF Len(purge_once(series)) = Len(series) THEN series
    ELSE purge_to_fixed_point(purge_once(series))

_srm_preprocssing_recursive(timeseries) ==
    purge_to_fixed_point(_convert_timestamp_to_decimal(timeseries))

_srm_preprocssing(timeseries) ==
    purge_once(_convert_timestamp_to_decimal(timeseries))

(***************************************************************************)
(* CircadianAnalysis._calculate_srm_hit                                    *)
(*                                                                         *)
(* The limits are the doubles mean -/+ 45/60.  As above the comparison is  *)
(* done on the exact numbers unless the sample is exactly 45 minutes from  *)
(* the mean, and then on the doubles.                                      *)
(***************************************************************************)
\* 45/60
hit_range_double == FDivInt(FOfInt(hit_range), Scale)

\* filtering_f of _calculate_srm_hit: z >= lower and z <= upper for the
\* doubles lower and upper, m being the mean they were computed from as an
\* exact number
hit_filtering_f(z, m, lower, upper) ==
    /\ ~IsNaN(m)
    /\ IF m.num - m.den * z = hit_range * m.den
       THEN FLeq(lower, Double(z))
       ELSE m.num - m.den * z < hit_range * m.den
    /\ IF m.den * z - m.num = hit_range * m.den
       THEN FLeq(Double(z), upper)
       ELSE m.den * z - m.num < hit_range * m.den

\* mutant: sum(series) in place of sum(series.map(filtering_f))
_calculate_srm_hit_sum(series, m, lower_limit, upper_limit) == SumSeq(series)

\* sum(series.map(filtering_f))
_calculate_srm_hit(series, m, lower_limit, upper_limit) ==
    Len(SelectSeq(series, LAMBDA z :
            hit_filtering_f(z, m, lower_limit, upper_limit)))

\* the body of `if len(series) >= min_samples`, up to the call: the mean of
\* the series as a double, lower and upper, and the hit count
hit_around(series, mean) ==
    _calculate_srm_hit(series, mean_of(series),
                       FSub(mean, hit_range_double), FAdd(mean, hit_range_double))

hit_of(series) == hit_around(series, mean_double(Doubles(series)))

(***************************************************************************)
(* CircadianAnalysis.calculate_srm                                         *)
(***************************************************************************)
\* the test that lets a target group into the average
qualifies(series, min) == Len(series) >= min

\* mutant: min_samples tested on the group's count before the purge
srm_iteration_raw_count(g, min) ==
    LET series == _srm_preprocssing(MapSeq(g.v, LAMBDA row : row.completion_time))
        app == qualifies(g.v, min)
    IN  [k |-> g.k,
         series |-> series,
         appended |-> app,
         hit |-> IF app THEN hit_of(series) ELSE 0]

\* one iteration of the for loop: the group's key, the preprocessed series,
\* whether a hit count was appended to l, and that hit count
srm_entry(k, series, min) ==
    [k |-> k,
     series |-> series,
     appended |-> qualifies(series, min),
     hit |-> IF qualifies(series, min) THEN hit_of(series) ELSE 0]

srm_iteration(g, min) ==
    srm_entry(g.k,
              _srm_preprocssing(MapSeq(g.v, LAMBDA row : row.completion_time)),
              min)

calculate_srm_loop(table, min) ==
    MapSeq(groupby(table, "target"), LAMBDA g : srm_iteration(g, min))

\* mutant: every target group counted in l, a non-qualifying one with 0 hits
hits_list_all_targets(loop) == MapSeq(loop, LAMBDA it : it.hit)

\* the list l after the loop
hits_list(loop) ==
    MapSeq(SelectSeq(loop, LAMBDA it : it.appended), LAMBDA it : it.hit)

\* mutant: 0/0 given back as NaN
srm_divide_nan(l) == [kind |-> "value", num |-> SumSeq(l), den |-> Len(l)]

\* sum(l)/len(l): a fraction, or ZeroDivisionError for an empty l
srm_divide(l) ==
    IF Len(l) = 0 THEN [kind |-> "ZeroDivisionError", num |-> 0, den |-> 0]
    ELSE [kind |-> "value", num |-> SumSeq(l), den |-> Len(l)]

calculate_srm(table, min) == srm_divide(hits_list(calculate_srm_loop(table, min)))

(***************************************************************************)
(* CircadianAnalysis.calculate_srm_across_users                            *)
(***************************************************************************)
\* mutant: the events of the next user are handed to calculate_srm as well
RECURSIVE across_users_loop_shared(_, _, _)
across_users_loop_shared(groups, min, l) ==
    IF groups = <<>> THEN [kind |-> "table", rows |-> l]
    ELSE LET r == calculate_srm(groups[1].v \o
                      (IF Len(groups) > 1 THEN groups[2].v ELSE <<>>), min)
         IN  IF r.kind # "value" THEN [kind |-> r.kind, rows |-> <<>>]
             ELSE across_users_loop_shared(Tail(groups), min,
                    Append(l, [user_id |-> groups[1].k,
                               srm |-> [num |-> r.num, den |-> r.den]]))

\* the loop over the users in ascending user_id order: the rows
\* {'user_id': k, 'srm': srm}, or the error of the first call that raises
RECURSIVE across_users_loop(_, _, _)
RECURSIVE across_users_row(_, _, _, _)
across_users_loop(groups, min, l) ==
    IF groups = <<>> THEN [kind |-> "table", rows |-> l]
    ELSE across_users_row(groups, min, l, calculate_srm(groups[1].v, min))

\* the rest of one iteration, r being what calculate_srm gave for the user
across_users_row(groups, min, l, r) ==
    IF r.kind # "value" THEN [kind |-> r.kind, rows |-> <<>>]
    ELSE across_users_loop(Tail(groups), min,
            Append(l, [user_id |-> groups[1].k,
                       srm |-> [num |-> r.num, den |-> r.den]]))

calculate_srm_across_users(table, min) ==
    across_users_loop(groupby(table, "user_id"), min, <<>>)

(***************************************************************************)
(* CircadianAnalysis.rolling_srm_across_users                              *)
(***************************************************************************)
\* a timestamp as seconds since 2021-01-01 00:00:00, the order of datetimes
Seconds(z) == ((z.day * 24 + z.hour) * 60 + z.minute) * 60 + z.second

\* z + datetime.timedelta(days=n)
plus_days(z, n) == [z EXCEPT !.day = @ + n]

\* s = start_date + datetime.timedelta(days=i)
window_start(start, n) == plus_days(start, n)

\* e = s + datetime.timedelta(days=7)
window_end(s) == plus_days(s, window_days)

\* mutant: the window closed at its end
in_window_closed(z, s, e) == Seconds(z) >= Seconds(s) /\ Seconds(z) <= Seconds(e)

\* lambda z: z >= s and z < e
in_window(z, s, e) == Seconds(z) >= Seconds(s) /\ Seconds(z) < Seconds(e)

\* w = df[df[time_col].map(lambda z: z >= s and z < e)]
window_rows(table, s, e) ==
    SelectSeq(table, LAMBDA row : in_window(row.completion_time, s, e))

\* mutant: the window labelled with the date of its end
window_label_end(s) == window_end(s).day

\* s.date(), as the number of days since 2021-01-01
window_label(s) == s.day

\* df_w['date'] = s.date()
with_date(rows, s) ==
    [r \in 1..Len(rows) |->
        [user_id |-> rows[r].user_id, srm |-> rows[r].srm, date |-> window_label(s)]]

None == [none |-> TRUE, rows |-> <<>>]

\* mutant: pd.concat([df_w, srm_df])
concat_reversed(table, rows) == [none |-> FALSE, rows |-> rows \o table.rows]

\* pd.concat([srm_df, df_w], ignore_index=True): None is dropped
concat(table, rows) == [none |-> FALSE, rows |-> table.rows \o rows]

(***************************************************************************)
(* Inputs.                                                                 *)
(***************************************************************************)
TS(d, h, m, s) == [day |-> d, hour |-> h, minute |-> m, second |-> s]
Row(u, t, z) == [user_id |-> u, target |-> t, completion_time |-> z]

\* the nondecreasing sequences of indices in 1..m of length at most n: one
\* per multiset of at most n elements
RECURSIVE SortedIndexSeqs(_, _)
SortedIndexSeqs(n, m) ==
    IF n = 0 THEN {<<>>}
    ELSE LET P == SortedIndexSeqs(n - 1, m)
             L == {p \in P : Len(p) = n - 1}
         IN  P \cup UNION {{Append(p, k) :
                    k \in (IF p = <<>> THEN 1 ELSE p[Len(p)])..m} : p \in L}

TablesOver(universe, n) ==
    {[r \in 1..Len(ix) |-> universe[ix[r]]] :
        ix \in SortedIndexSeqs(n, Len(universe))}

\* rows of one user's slice, drawn from one of four sets of rows:
\*  - target 1 at 08:30, 09:00 and 10:00, target 2 at 23:59 on two dates:
\*    samples of standard deviation exactly 0.5 whose doubles are exact;
\*  - target 1 at 00:39, 01:09 and 02:09 (the same, 7 h 51 min earlier),
\*    target 2 at 23:59: the doubles of these times are rounded;
\*  - target 1 at 00:03, 01:33, 00:10 and 01:10, target 2 at 23:59: samples
\*    exactly 45 minutes from the mean, and exactly 1.5 standard deviations
\*    from it, with rounded doubles;
\*  - target 1 at 00:00, 08:00 and 09:00, target 2 at 23:59 on two dates:
\*    samples far from the others of their group
SliceUniverses ==
    { << Row(1, 1, TS(1, 8, 30, 15)),
         Row(1, 1, TS(2, 9, 0, 0)),
         Row(1, 1, TS(3, 10, 0, 30)),
         Row(1, 2, TS(0, 23, 59, 59)),
         Row(1, 2, TS(5, 23, 59, 0)) >>,
      << Row(1, 1, TS(1, 0, 39, 15)),
         Row(1, 1, TS(2, 1, 9, 0)),
         Row(1, 1, TS(3, 2, 9, 30)),
         Row(1, 2, TS(0, 23, 59, 59)) >>,
      << Row(1, 1, TS(0, 0, 3, 0)),
         Row(1, 1, TS(1, 1, 33, 0)),
         Row(1, 1, TS(2, 0, 10, 0)),
         Row(1, 1, TS(3, 1, 10, 45)),
         Row(1, 2, TS(0, 23, 59, 59)) >>,
      << Row(1, 1, TS(0, 0, 0, 0)),
         Row(1, 1, TS(0, 8, 0, 0)),
         Row(1, 1, TS(2, 9, 0, 0)),
         Row(1, 2, TS(0, 23, 59, 59)),
         Row(1, 2, TS(5, 23, 59, 0)) >> }

MinSamplesValues == {1, 3, 5}

NoResult == [kind |-> "none", num |-> 0, den |-> 0]

\* rows of the table of the rolling computation: two users; user 1 at
\* 2020-12-31 23:59:59, 2021-01-01 00:00:00, 2021-01-04 08:00:00 and
\* 2021-01-08 00:00:00 (target 1) and at 2021-01-04 08:00:00 (target 2),
\* user 2 at 2021-01-04 08:00:00, 2021-01-08 00:00:00 and 2021-01-09 00:00:00
RollingUniverse ==
    << Row(1, 1, TS(-1, 23, 59, 59)),
       Row(1, 1, TS(0, 0, 0, 0)),
       Row(1, 1, TS(3, 8, 0, 0)),
       Row(1, 1, TS(7, 0, 0, 0)),
       Row(1, 2, TS(3, 8, 0, 0)),
       Row(2, 1, TS(3, 8, 0, 0)),
       Row(2, 1, TS(7, 0, 0, 0)),
       Row(2, 1, TS(8, 0, 0, 0)) >>

RollingMinSamples == {2, 3}

\* 2021-01-01 00:00:00 and 2021-01-01 08:00:00
StartDates == {TS(0, 0, 0, 0), TS(0, 8, 0, 0)}

(***************************************************************************)
(* Spec: rolling_srm_across_users, one step per iteration of its loop.     *)
(***************************************************************************)
Init ==
    /\ OtherIdle
    /\ pc = "loop"
    /\ df \in TablesOver(RollingUniverse, MaxRows) \ {<<>>}
    /\ min_samples \in RollingMinSamples
    /\ start_date \in StartDates
    /\ how_many_days \in 0..MaxDays
    /\ i = 0
    /\ srm_df = None
    /\ srm_loop = <<>>
    /\ srm = NoResult
    /\ hourly = <<>>
    /\ stability = NoResult
    /\ variability = NoResult

\* the end of an iteration for the window that starts at s, df_w being what
\* calculate_srm_across_users gave: srm_df = pd.concat([srm_df, df_w]), or
\* the error
WindowEnd(s, df_w) ==
    IF df_w.kind = "table"
    THEN /\ srm_df' = concat(srm_df, with_date(df_w.rows, s))
         /\ i' = i + 1
         /\ pc' = "loop"
    ELSE /\ pc' = df_w.kind
         /\ UNCHANGED <<srm_df, i>>

\* the iteration for the window that starts at s
WindowAt(s) ==
    WindowEnd(s, calculate_srm_across_users(window_rows(df, s, window_end(s)),
                                            min_samples))

\* mutant: a window in which calculate_srm fails is skipped
Window_skip ==
    /\ pc = "loop"
    /\ i < how_many_days
    /\ LET s == window_start(start_date, i)
           e == window_end(s)
           w == window_rows(df, s, e)
           df_w == calculate_srm_across_users(w, min_samples)
       IN  srm_df' = IF df_w.kind = "table"
                     THEN concat(srm_df, with_date(df_w.rows, s))
                     ELSE srm_df
    /\ i' = i + 1
    /\ pc' = "loop"
    /\ UNCHANGED other_vars
    /\ UNCHANGED <<df, min_samples, start_date, how_many_days, srm_loop, srm,
                   hourly, stability, variability>>

\* one iteration of `for i in range(how_many_days)`; a ZeroDivisionError of
\* calculate_srm ends the call
Window ==
    /\ pc = "loop"
    /\ i < how_many_days
    /\ WindowAt(window_start(start_date, i))
    /\ UNCHANGED other_vars
    /\ UNCHANGED <<df, min_samples, start_date, how_many_days, srm_loop, srm,
                   hourly, stability, variability>>

\* return srm_df
Return ==
    /\ pc = "loop"
    /\ i >= how_many_days
    /\ pc' = "returned"
    /\ UNCHANGED other_vars
    /\ UNCHANGED <<df, min_samples, start_date, how_many_days, i, srm_df,
                   srm_loop, srm, hourly, stability, variability>>

Next == Window \/ Return

Spec == Init /\ [][Next]_vars

(***************************************************************************)
(* SpecSrm: calculate_srm applied to one slice.                            *)
(***************************************************************************)
InitSrm ==
    /\ OtherIdle
    /\ pc = "call"
    /\ \E universe \in SliceUniverses : df \in TablesOver(universe, MaxEvents)
    /\ min_samples \in MinSamplesValues
    /\ srm_loop = <<>>
    /\ srm = NoResult
    /\ start_date = TS(0, 0, 0, 0)
    /\ how_many_days = 0
    /\ i = 0
    /\ srm_df = None
    /\ hourly = <<>>
    /\ stability = NoResult
    /\ variability = NoResult

\* calculate_srm(df, min_samples): the iterations of its loop are kept in
\* srm_loop, what it returns or raises in srm
CalculateSrmEnd(loop) ==
    /\ srm_loop' = loop
    /\ srm' = srm_divide(hits_list(loop))

CalculateSrm ==
    /\ pc = "call"
    /\ CalculateSrmEnd(calculate_srm_loop(df, min_samples))
    /\ pc' = "done"
    /\ UNCHANGED other_vars
    /\ UNCHANGED <<df, min_samples, start_date, how_many_days, i, srm_df,
                   hourly, stability, variability>>

NextSrm == CalculateSrm

SpecSrm == InitSrm /\ [][NextSrm]_vars

(***************************************************************************)
(* SpecRhythm: inter_daily_stability and intra_daily_variability applied   *)
(* to one table, in either order.                                          *)
(***************************************************************************)
HourlyValues == {0, 1, 2}
Hours == {0, 23}

RECURSIVE SeqsUpTo(_, _)
SeqsUpTo(S, n) ==
    IF n = 0 THEN {<<>>}
    ELSE LET P == SeqsUpTo(S, n - 1)
         IN  P \cup {Append(p, x) : p \in {q \in P : Len(q) = n - 1}, x \in S}

InitRhythm ==
    /\ OtherIdle
    /\ pc = "call"
    /\ hourly \in SeqsUpTo([value : HourlyValues, hour : Hours], MaxLen)
    /\ stability = NoResult
    /\ variability = NoResult
    /\ df = <<>>
    /\ min_samples = 0
    /\ srm_loop = <<>>
    /\ srm = NoResult
    /\ start_date = TS(0, 0, 0, 0)
    /\ how_many_days = 0
    /\ i = 0
    /\ srm_df = None

InterDailyStability ==
    /\ pc = "call"
    /\ stability.kind = "none"
    /\ stability' = inter_daily_stability(hourly)
    /\ UNCHANGED other_vars
    /\ UNCHANGED <<pc, df, min_samples, srm_loop, srm, start_date,
                   how_many_days, i, srm_df, hourly, variability>>

IntraDailyVariability ==
    /\ pc = "call"
    /\ variability.kind = "none"
    /\ variability' = intra_daily_variability(hourly)
    /\ UNCHANGED other_vars
    /\ UNCHANGED <<pc, df, min_samples, srm_loop, srm, start_date,
                   how_many_days, i, srm_df, hourly, stability>>

NextRhythm == InterDailyStability \/ IntraDailyVariability

SpecRhythm == InitRhythm /\ [][NextRhythm]_vars

(***************************************************************************)
(* Properties of calculate_srm, checked under SpecSrm.                     *)
(***************************************************************************)
\* the decimal times of target t in the slice, restated from the table
RawSeries(t) ==
    LET rows == SelectSeq(df, LAMBDA row : row.target = t)
    IN  [r \in 1..Len(rows) |->
            60 * rows[r].completion_time.hour + rows[r].completion_time.minute]

\* number of values of x at most 45 minutes from the mean of x, as exact
\* numbers
HitsWithin45(x) ==
    Cardinality({j \in DOMAIN x :
        /\ Len(x) * x[j] - SumSeq(x) <= 45 * Len(x)
        /\ SumSeq(x) - Len(x) * x[j] <= 45 * Len(x)})

\* number of values of x less than 45 minutes from the mean of x, as exact
\* numbers
HitsInside45(x) ==
    Cardinality({j \in DOMAIN x :
        /\ Len(x) * x[j] - SumSeq(x) < 45 * Len(x)
        /\ SumSeq(x) - Len(x) * x[j] < 45 * Len(x)})

Qualifying == {g \in DOMAIN srm_loop : Len(srm_loop[g].series) >= min_samples}

\* C4: the score is the sum of the hit counts of the qualifying target
\* groups divided by their number; the other groups add nothing to the sum
\* and nothing to the divisor.  The hit count of a group counts every sample
\* less than 45 minutes from the group's mean and no sample more than 45
\* minutes from it.
C4_AverageOverQualifying ==
    (pc = "done" /\ Qualifying # {}) =>
        /\ srm.kind = "value"
        /\ srm.den = Cardinality(Qualifying)
        /\ srm.num = SumSeq([g \in DOMAIN srm_loop |->
                        IF g \in Qualifying THEN srm_loop[g].hit ELSE 0])
        /\ \A g \in Qualifying :
              /\ HitsInside45(srm_loop[g].series) <= srm_loop[g].hit
              /\ srm_loop[g].hit <= HitsWithin45(srm_loop[g].series)

C4_Witness ==
    /\ pc = "done"
    /\ srm.kind = "value"
    /\ Qualifying # {}
    /\ Qualifying # DOMAIN srm_loop
    /\ srm.num > 0

\* C5: when no target group of the slice qualifies (an empty slice
\* included), the caller gets an explicit InsufficientSamplesError /
\* InsufficientDataError, never NaN and never a number.
C5_ExplicitInsufficientSamplesError ==
    (pc = "done" /\ Qualifying = {}) =>
        srm.kind \in {"InsufficientSamplesError", "InsufficientDataError"}

\* what the code does in that case: no check is made, and the division
\* sum(l)/len(l) of the ints 0 and 0 raises ZeroDivisionError; a call that
\* returns a number has a qualifying group.
ZeroDivisionErrorWhenNoneQualifies ==
    pc = "done" =>
        /\ Qualifying = {} => srm.kind = "ZeroDivisionError"
        /\ srm.kind = "value" => (Qualifying # {} /\ srm.den > 0)
        /\ srm.kind \in {"value", "ZeroDivisionError"}

\* a slice with events and no qualifying group
NoneQualifies ==
    /\ pc = "done"
    /\ df # <<>>
    /\ Qualifying = {}
    /\ srm.kind = "ZeroDivisionError"

\* C7: a target group is in the average exactly when its sample count after
\* the purge is >= min_samples; the count before the purge plays no part.
C7_IncludedIffPurgedCount ==
    pc = "done" =>
        /\ \A g \in DOMAIN srm_loop :
              srm_loop[g].appended <=> Len(srm_loop[g].series) >= min_samples
        /\ srm.kind = "value" => srm.den = Cardinality(Qualifying)

\* one group one short of min_samples after the purge though not before it
\* (left out), another at exactly min_samples (taken)
C7_Witness ==
    /\ pc = "done"
    /\ \E g \in DOMAIN srm_loop :
          /\ Len(srm_loop[g].series) = min_samples - 1
          /\ Len(RawSeries(srm_loop[g].k)) >= min_samples
          /\ ~srm_loop[g].appended
    /\ \E g \in DOMAIN srm_loop :
          /\ Len(srm_loop[g].series) = min_samples
          /\ srm_loop[g].appended

\* C8 (as claimed): every score lies in [0, 7].
C8_Original ==
    (pc = "done" /\ srm.kind = "value") =>
        (0 <= srm.num /\ srm.num <= 7 * srm.den)

MaxOf(S) == CHOOSE x \in S : \A y \in S : y <= x

\* C8 (amended): every score is >= 0 and at most the largest sample count
\* (after the purge) of a qualifying target group; it lies in [0, 7] when no
\* target has more than 7 events in the slice.
C8_BoundedByGroupSize ==
    (pc = "done" /\ srm.kind = "value") =>
        /\ 0 <= srm.num
        /\ srm.num <= srm.den * MaxOf({Len(srm_loop[g].series) : g \in Qualifying})
        /\ (\A g \in DOMAIN srm_loop : Len(RawSeries(srm_loop[g].k)) <= 7)
              => srm.num <= 7 * srm.den

\* seven events of one target at one time of one day: the score is 7
C8_Witness ==
    /\ pc = "done"
    /\ srm.kind = "value"
    /\ \E r1, r2 \in DOMAIN df : r1 # r2 /\ df[r1] = df[r2]
    /\ \A g \in DOMAIN srm_loop : Len(RawSeries(srm_loop[g].k)) <= 7
    /\ srm.num = 7 * srm.den

\* n * (n - 1) * 60^2 times the squared sample standard deviation of x
SampleV(x) == Len(x) * SumSeq([j \in DOMAIN x |-> x[j] * x[j]]) - SumSeq(x) * SumSeq(x)

\* -1, 0, 1 as the sample standard deviation of x (two values at least) is
\* below, equal to, above 0.5 hours, as exact numbers
StdVsHalf(x) ==
    IF SampleV(x) < 900 * Len(x) * (Len(x) - 1) THEN -1
    ELSE IF SampleV(x) = 900 * Len(x) * (Len(x) - 1) THEN 0
    ELSE 1

\* -1, 0, 1 as z is less than, exactly, more than 1.5 standard deviations of
\* x from the mean of x, as exact numbers
LimitVs(z, x) ==
    LET lhs == 4 * (Len(x) - 1) * (Len(x) * z - SumSeq(x)) * (Len(x) * z - SumSeq(x))
        rhs == 9 * Len(x) * SampleV(x)
    IN  IF lhs < rhs THEN -1 ELSE IF lhs = rhs THEN 0 ELSE 1

\* y holds the samples of x of some values, in the order of x
SamplesOf(y, x) ==
    y = SelectSeq(x, LAMBDA z : \E j \in DOMAIN y : y[j] = z)

\* y is x purged with the limits of x: it has every sample of x less than
\* 1.5 standard deviations of x from the mean of x and none more than that
\* from it
PurgedWithLimitsOf(y, x) ==
    /\ SamplesOf(y, x)
    /\ \A j \in DOMAIN x :
          LimitVs(x[j], x) < 0 => \E r \in DOMAIN y : y[r] = x[j]
    /\ \A j \in DOMAIN y : LimitVs(y[j], x) <= 0

\* y is the result of one pass over x: nothing for a single sample (no
\* standard deviation), x itself below a standard deviation of 0.5, x purged
\* with its own limits above it, one of the two at exactly 0.5
OnePass(y, x) ==
    IF Len(x) <= 1 THEN y = <<>>
    ELSE /\ StdVsHalf(x) < 0 => y = x
         /\ StdVsHalf(x) > 0 => PurgedWithLimitsOf(y, x)
         /\ StdVsHalf(x) = 0 => (y = x \/ PurgedWithLimitsOf(y, x))

\* C9: the series the hit counter works on is the result of one pass of the
\* purge over the unpurged sample, with the mean and the standard deviation
\* of the unpurged sample, also when a second pass over that result would
\* remove more.
C9_SinglePass ==
    pc = "done" =>
        \A g \in DOMAIN srm_loop :
            /\ OnePass(srm_loop[g].series, RawSeries(srm_loop[g].k))
            /\ srm_loop[g].appended =>
                  /\ HitsInside45(srm_loop[g].series) <= srm_loop[g].hit
                  /\ srm_loop[g].hit <= HitsWithin45(srm_loop[g].series)

\* the purge removed a sample, and a second pass would remove another: the
\* series has a standard deviation above 0.5 and a sample more than 1.5
\* standard deviations from its mean
C9_Witness ==
    /\ pc = "done"
    /\ \E g \in DOMAIN srm_loop :
          /\ srm_loop[g].appended
          /\ Len(srm_loop[g].series) < Len(RawSeries(srm_loop[g].k))
          /\ Len(srm_loop[g].series) >= 2
          /\ StdVsHalf(srm_loop[g].series) > 0
          /\ \E j \in DOMAIN srm_loop[g].series :
                LimitVs(srm_loop[g].series[j], srm_loop[g].series) > 0

\* C10: every decimal time lies in [0, 24) (in sixtieths: in 0..1439), is
\* hour + minute/60 and is the same for two timestamps that differ only in
\* date and seconds; the double hour + minute/60 of the first row (every
\* row is the first one of some table) is not negative and less than 24; so
\* does every sample the hit counter works on.
C10_DecimalRange ==
    /\ \A r \in DOMAIN df :
          LET z == df[r].completion_time
              x == _convert_timestamp_to_decimal(<<z>>)[1]
          IN  /\ 0 <= x /\ x < 24 * 60
              /\ x = 60 * z.hour + z.minute
              /\ \A r2 \in DOMAIN df :
                    LET z2 == df[r2].completion_time
                    IN  (z2.hour = z.hour /\ z2.minute = z.minute) =>
                            _convert_timestamp_to_decimal(<<z2>>)[1] = x
    /\ df # <<>> =>
          LET d == Double(_convert_timestamp_to_decimal(<<df[1].completion_time>>)[1])
          IN  ~d.nan /\ d.sign = 1 /\ FLess(d, FOfInt(hour_count))
    /\ \A g \in DOMAIN srm_loop : \A j \in DOMAIN srm_loop[g].series :
          srm_loop[g].series[j] \in 0..(24 * 60 - 1)

\* 23:59:59 and 23:59:00 of another day were converted and counted
C10_Witness ==
    /\ pc = "done"
    /\ \E r1, r2 \in DOMAIN df :
          /\ df[r1].completion_time.hour = 23
          /\ df[r1].completion_time.minute = 59
          /\ df[r2].completion_time.hour = 23
          /\ df[r2].completion_time.minute = 59
          /\ df[r1].completion_time.day # df[r2].completion_time.day
          /\ df[r1].completion_time.second # df[r2].completion_time.second
    /\ \E g \in DOMAIN srm_loop :
          /\ srm_loop[g].appended
          /\ \E j \in DOMAIN srm_loop[g].series : srm_loop[g].series[j] = 1439

(***************************************************************************)
(* Properties of rolling_srm_across_users, checked under Spec.             *)
(***************************************************************************)
\* seconds from 2021-01-01 00:00:00 to the timestamp z
SecondsSinceEpoch(z) == 86400 * z.day + 3600 * z.hour + 60 * z.minute + z.second

\* the rows of user u with
\* start_date + j days <= completion_time < start_date + j days + 7 days
EventsInWindow(u, j) ==
    SelectSeq(df, LAMBDA row :
        /\ row.user_id = u
        /\ SecondsSinceEpoch(row.completion_time)
              >= SecondsSinceEpoch(start_date) + 86400 * j
        /\ SecondsSinceEpoch(row.completion_time)
              < SecondsSinceEpoch(start_date) + 86400 * j + 7 * 86400)

UsersInWindow(j) ==
    {df[r].user_id : r \in {q \in DOMAIN df : EventsInWindow(df[q].user_id, j) # <<>>}}

\* the dates of the rows in table order, a run of equal dates taken once
RECURSIVE Labels(_)
Labels(rows) ==
    IF rows = <<>> THEN <<>>
    ELSE LET rest == Labels(Tail(rows))
         IN  IF rest # <<>> /\ rest[1] = rows[1].date THEN rest
             ELSE <<rows[1].date>> \o rest

\* C1: in the table built so far, and so in the table returned, a row of an
\* earlier window comes before every row of a later window.
C1_AscendingWindowOrder ==
    \A a, b \in DOMAIN srm_df.rows :
        a < b => srm_df.rows[a].date <= srm_df.rows[b].date

C1_Witness ==
    /\ pc = "returned"
    /\ \E a, b \in DOMAIN srm_df.rows :
          /\ srm_df.rows[a].date = start_date.day
          /\ srm_df.rows[b].date = start_date.day + 1
    /\ \E a, b \in DOMAIN srm_df.rows :
          /\ srm_df.rows[a].date = srm_df.rows[b].date
          /\ srm_df.rows[a].user_id # srm_df.rows[b].user_id

\* C2: a row labelled start_date + j days holds the score of exactly its
\* user's events with start_date + j days <= t < start_date + j days + 7
\* days, and the users with a row of that label are the users with an event
\* in that window.
C2_HalfOpenWindow ==
    /\ \A r \in DOMAIN srm_df.rows :
          LET row == srm_df.rows[r]
              j == row.date - start_date.day
              expected == calculate_srm(EventsInWindow(row.user_id, j), min_samples)
          IN  /\ j \in 0..(how_many_days - 1)
              /\ expected.kind = "value"
              /\ expected.num * row.srm.den = row.srm.num * expected.den
    /\ \A j \in 0..(i - 1) :
          {srm_df.rows[r].user_id :
              r \in {q \in DOMAIN srm_df.rows :
                        srm_df.rows[q].date = start_date.day + j}}
            = UsersInWindow(j)

\* a returned row of the first window whose user has an event exactly at
\* the window's start and one exactly 7 days later
C2_Witness ==
    /\ pc = "returned"
    /\ \E r \in DOMAIN srm_df.rows :
          /\ srm_df.rows[r].date = start_date.day
          /\ srm_df.rows[r].srm.num > 0
          /\ \E a, b \in DOMAIN df :
                /\ df[a].user_id = srm_df.rows[r].user_id
                /\ df[b].user_id = srm_df.rows[r].user_id
                /\ df[a].target = df[b].target
                /\ SecondsSinceEpoch(df[a].completion_time)
                      = SecondsSinceEpoch(start_date)
                /\ SecondsSinceEpoch(df[b].completion_time)
                      = SecondsSinceEpoch(start_date) + 7 * 86400

\* C3 (as claimed): a call that returns gives exactly the labels start_date,
\* ..., start_date + (how_many_days - 1) days, in that order, whatever the
\* events.
C3_Original ==
    pc = "returned" =>
        Labels(srm_df.rows) = [j \in 1..how_many_days |-> start_date.day + j - 1]

\* C3 (amended): a call that returns gives, in ascending order, exactly the
\* labels start_date + j days of the windows j < how_many_days that hold at
\* least one event; a window without events gives no row and no label.
C3_LabelsOfNonEmptyWindows ==
    pc = "returned" =>
        Labels(srm_df.rows) =
            SortedSeq({start_date.day + j : j \in {q \in 0..(how_many_days - 1) :
                                                        UsersInWindow(q) # {}}})

\* start_date 2021-01-01, how_many_days 2: the labels 2021-01-01, 2021-01-02
C3_Witness ==
    /\ pc = "returned"
    /\ start_date = [day |-> 0, hour |-> 0, minute |-> 0, second |-> 0]
    /\ how_many_days = 2
    /\ Labels(srm_df.rows) = <<0, 1>>

(***************************************************************************)
(* Properties of IS and IV, checked under SpecRhythm.                      *)
(***************************************************************************)
HourlySum == SumSeq([r \in DOMAIN hourly |-> hourly[r].value])
HourlySumSq == SumSeq([r \in DOMAIN hourly |-> hourly[r].value * hourly[r].value])

\* all values of the table are equal (none or one value included)
ZeroVariance == Len(hourly) * HourlySumSq = HourlySum * HourlySum

ErrorKinds ==
    {"ZeroDivisionError", "InsufficientDataError", "InsufficientSamplesError"}

\* C6: on a table of zero variance IS is an error, and on a table of at
\* most one row or of zero variance IV is an error; neither is NaN or inf.
C6_ExplicitErrorOnZeroDenominator ==
    /\ (stability.kind # "none" /\ ZeroVariance) => stability.kind \in ErrorKinds
    /\ (variability.kind # "none" /\ (Len(hourly) <= 1 \/ ZeroVariance))
          => variability.kind \in ErrorKinds

(***************************************************************************)
(* anvil.misc.Utils._sd_based_outlier_filtering and outlier_filtering      *)
(* (src/anvil/misc.py).  The table is the sequence of the values of its    *)
(* filtering column.                                                       *)
(***************************************************************************)
MaxFilterRows == 4      \* rows of the table handed to outlier_filtering

\* the float64 values of an int64 column
ColumnDoubles(col) == [k \in 1..Len(col) |-> FOfInt(col[k])]

\* threshold = col.std() * factor, factor = 1.5
threshold(a) == FMul(std_double(a), OneAndHalf)

\* col.mean() - threshold and col.mean() + threshold for the doubles a
min_val(a, thr) == FSub(mean_double(a), thr)
max_val(a, thr) == FAdd(mean_double(a), thr)

\* min_val < z < max_val for the doubles lo and hi, m and sd being the mean
\* and the standard deviation they were computed from as exact numbers; as
\* in purge_filtering_f the comparison is done on the exact numbers unless z
\* is exactly on a limit, and then on the doubles.  False when std is NaN
sd_filtering_f(z, m, sd, lo, hi) ==
    /\ ~IsNaN(m)
    /\ ~StdIsNaN(sd)
    /\ IF CmpOneAndHalfStd(m.num - m.den * z, sd) = 0
       THEN FLess(lo, FOfInt(z))
       ELSE CmpOneAndHalfStd(m.num - m.den * z, sd) < 0
    /\ IF CmpOneAndHalfStd(m.den * z - m.num, sd) = 0
       THEN FLess(FOfInt(z), hi)
       ELSE CmpOneAndHalfStd(m.den * z - m.num, sd) < 0

\* col.map(lambda z: min_val < z < max_val)
sd_mask(col, lo, hi) ==
    [k \in 1..Len(col) |->
        sd_filtering_f(col[k], mean_of(col), std_of(col), lo, hi)]

\* the mask for the threshold thr
sd_mask_within(col, thr) ==
    sd_mask(col, min_val(ColumnDoubles(col), thr), max_val(ColumnDoubles(col), thr))

_sd_based_outlier_filtering(col) ==
    sd_mask_within(col, threshold(ColumnDoubles(col)))

MaxOfSeq(col) == CHOOSE x \in {col[k] : k \in DOMAIN col} :
                    \A k \in DOMAIN col : col[k] <= x

\* filtering_f(col) for the filtering functions of the model: the SD filter,
\* lambda z: z <= 1 (as in test_outlier_filtering), col < col.max(), and the
\* filters that keep and that drop every row
apply_filtering_f(f, col) ==
    CASE f = "sd" -> _sd_based_outlier_filtering(col)
      [] f = "le_1" -> [k \in 1..Len(col) |-> col[k] <= 1]
      [] f = "below_max" -> [k \in 1..Len(col) |-> col[k] < MaxOfSeq(col)]
      [] f = "keep_all" -> [k \in 1..Len(col) |-> TRUE]
      [] f = "drop_all" -> [k \in 1..Len(col) |-> FALSE]

FilteringFunctions == {"sd", "le_1", "below_max", "keep_all", "drop_all"}

\* df[mask]: the rows whose mask is True, in order
RECURSIVE boolean_index(_, _)
boolean_index(t, mask) ==
    IF t = <<>> THEN <<>>
    ELSE (IF mask[1] THEN <<t[1]>> ELSE <<>>)
            \o boolean_index(Tail(t), Tail(mask))

\* `if not is_recursive`, `if len(df) == len(df2)`: whether the call returns
\* df2 or calls outlier_filtering(df2, ...)
filtering_result(t, rec, df2) ==
    [df2 |-> df2, returns |-> IF rec THEN Len(t) = Len(df2) ELSE TRUE]

\* mutant: is_recursive ignored, df2 returned after one pass
filtering_call_one_pass(t, f, rec) ==
    [df2 |-> boolean_index(t, apply_filtering_f(f, t)), returns |-> TRUE]

\* one call of outlier_filtering: df2, and whether the call returns df2 or
\* calls outlier_filtering(df2, ...)
filtering_call(t, f, rec) ==
    filtering_result(t, rec, boolean_index(t, apply_filtering_f(f, t)))

(***************************************************************************)
(* SpecFilter: outlier_filtering, one step per call of the recursion.      *)
(***************************************************************************)
FilterValues == {0, 1, 5}

RECURSIVE SeqsOver(_, _)
SeqsOver(S, n) ==
    IF n = 0 THEN {<<>>}
    ELSE LET P == SeqsOver(S, n - 1)
         IN  P \cup {Append(p, x) : p \in {q \in P : Len(q) = n - 1}, x \in S}

CircadianIdle ==
    /\ df = <<>>
    /\ min_samples = 0
    /\ srm_loop = <<>>
    /\ srm = [kind |-> "none", num |-> 0, den |-> 0]
    /\ start_date = [day |-> 0, hour |-> 0, minute |-> 0, second |-> 0]
    /\ how_many_days = 0
    /\ i = 0
    /\ srm_df = None
    /\ hourly = <<>>
    /\ stability = [kind |-> "none", num |-> 0, den |-> 0]
    /\ variability = [kind |-> "none", num |-> 0, den |-> 0]

circadian_vars == <<df, min_samples, srm_loop, srm, start_date, how_many_days,
                    i, srm_df, hourly, stability, variability>>

InitFilter ==
    /\ pc = "call"
    /\ filter_in \in SeqsOver(FilterValues, MaxFilterRows)
    /\ filter_df = filter_in
    /\ filtering_f \in FilteringFunctions
    /\ is_recursive \in BOOLEAN
    /\ depth = 1
    /\ filtered = <<>>
    /\ indexed = <<>>
    /\ sorted_slices = <<>>
    /\ index = 0
    /\ slices = <<>>
    /\ df_alt = <<>>
    /\ window = 0
    /\ across = NoTable
    /\ across_alt = NoTable
    /\ CircadianIdle

\* the call whose result is c returns df2
FilterReturns(c) ==
    /\ c.returns
    /\ filtered' = c.df2

\* the call whose result is c calls outlier_filtering(df2, ...)
FilterRecurses(c) ==
    /\ ~c.returns
    /\ filter_df' = c.df2

\* return df2
FilterReturn ==
    /\ pc = "call"
    /\ FilterReturns(filtering_call(filter_df, filtering_f, is_recursive))
    /\ pc' = "returned"
    /\ UNCHANGED <<filter_in, filter_df, filtering_f, is_recursive, depth,
                   indexed, sorted_slices, index, slices,
                   df_alt, window, across, across_alt>>
    /\ UNCHANGED circadian_vars

\* return Utils.outlier_filtering(df2, filtering_col, filtering_f, is_recursive)
FilterRecurse ==
    /\ pc = "call"
    /\ FilterRecurses(filtering_call(filter_df, filtering_f, is_recursive))
    /\ depth' = depth + 1
    /\ UNCHANGED <<pc, filter_in, filtering_f, is_recursive, filtered,
                   indexed, sorted_slices, index, slices,
                   df_alt, window, across, across_alt>>
    /\ UNCHANGED circadian_vars

NextFilter == FilterReturn \/ FilterRecurse

SpecFilter == InitFilter /\ [][NextFilter]_vars

(***************************************************************************)
(* Properties of outlier_filtering, checked under SpecFilter.              *)
(***************************************************************************)
\* C11: the recursion ends: a call that has not returned either returns or
\* calls itself with a table of fewer rows, and no more calls are entered
\* than the table has rows, plus one.  With is_recursive the table returned
\* is a fixed point of the filter (filtering it again removes no row), and a
\* filter that removes nothing gives back all the rows.
C11_TerminatesAtFixedPoint ==
    /\ depth <= Len(filter_in) + 1
    /\ Len(filter_df) + depth <= Len(filter_in) + 1
    /\ pc = "call" =>
          LET c == filtering_call(filter_df, filtering_f, is_recursive)
          IN  /\ c.returns \in BOOLEAN
              /\ ~c.returns => Len(c.df2) < Len(filter_df)
    /\ (pc = "returned" /\ is_recursive) =>
          LET mask == apply_filtering_f(filtering_f, filtered)
          IN  /\ \A k \in DOMAIN mask : mask[k]
              /\ Len(boolean_index(filtered, mask)) = Len(filtered)
    /\ (pc = "returned" /\ filtering_f = "keep_all") => filtered = filter_in

\* the SD filter needed three calls
C11_Witness ==
    /\ pc = "returned"
    /\ is_recursive
    /\ filtering_f = "sd"
    /\ depth >= 3
    /\ Len(filtered) < Len(filter_in)

(***************************************************************************)
(* anvil.misc.Utils.get_df_slices (src/anvil/misc.py).  The table is the   *)
(* sequence of its index labels; a row of a slice is the label and the     *)
(* position of the row in the table.                                       *)
(***************************************************************************)
MaxSliceRows == 3       \* rows of the table handed to get_df_slices
MaxBoundaries == 4      \* elements of sorted_slices

\* mutant: z >= s and z <= e
df_slice_closed(t, lo, hi) ==
    boolean_index([k \in 1..Len(t) |-> [label |-> t[k], row |-> k]],
                  [k \in 1..Len(t) |-> t[k] >= lo /\ t[k] <= hi])

\* df[df.index.map(lambda z: z >= s and z < e)]
df_slice(t, lo, hi) ==
    boolean_index([k \in 1..Len(t) |-> [label |-> t[k], row |-> k]],
                  [k \in 1..Len(t) |-> t[k] >= lo /\ t[k] < hi])

(***************************************************************************)
(* SpecSlices: the generator get_df_slices consumed to exhaustion, one     *)
(* step per yield.                                                         *)
(***************************************************************************)
IndexLabels == 0..4
BoundaryCount == 3      \* boundaries are drawn from 1..BoundaryCount

InitSlices ==
    /\ pc = "generator"
    /\ indexed \in SeqsOver(IndexLabels, MaxSliceRows) \ {<<>>}
    /\ sorted_slices \in SortedIndexSeqs(MaxBoundaries, BoundaryCount)
    /\ index = 0
    /\ slices = <<>>
    /\ filter_in = <<>>
    /\ filter_df = <<>>
    /\ filtering_f = "keep_all"
    /\ is_recursive = FALSE
    /\ depth = 0
    /\ filtered = <<>>
    /\ df_alt = <<>>
    /\ window = 0
    /\ across = NoTable
    /\ across_alt = NoTable
    /\ CircadianIdle

\* for index in range(0, len(sorted_slices) - 1): yield df[...]
Yield ==
    /\ pc = "generator"
    /\ index < Len(sorted_slices) - 1
    /\ slices' = Append(slices, df_slice(indexed, sorted_slices[index + 1],
                                         sorted_slices[index + 2]))
    /\ index' = index + 1
    /\ UNCHANGED <<pc, indexed, sorted_slices, filter_in, filter_df, filtering_f,
                   is_recursive, depth, filtered, df_alt, window, across,
                   across_alt>>
    /\ UNCHANGED circadian_vars

\* the range is exhausted
StopIteration ==
    /\ pc = "generator"
    /\ ~(index < Len(sorted_slices) - 1)
    /\ pc' = "StopIteration"
    /\ UNCHANGED <<indexed, sorted_slices, index, slices, filter_in, filter_df,
                   filtering_f, is_recursive, depth, filtered, df_alt, window,
                   across, across_alt>>
    /\ UNCHANGED circadian_vars

NextSlices == Yield \/ StopIteration

SpecSlices == InitSlices /\ [][NextSlices]_vars

(***************************************************************************)
(* Properties of get_df_slices, checked under SpecSlices.                  *)
(***************************************************************************)
\* boundary b_n of the claim (b_0 is sorted_slices[1])
Boundary(n) == sorted_slices[n + 1]

\* positions of the rows of slice number n (slice 0 is slices[1])
RowsOfSlice(n) == {slices[n + 1][k].row : k \in DOMAIN slices[n + 1]}

\* C12: for ascending boundaries b_0..b_k the exhausted generator has yielded
\* exactly k slices (none when there are no boundaries), in boundary order;
\* slice n holds, in table order and once each, exactly the rows whose index
\* x has b_n <= x < b_(n+1); the slices are pairwise disjoint; where
\* b_n < b_(n+1) a row with index b_n is in slice n and not in slice n-1;
\* rows with index < b_0 or >= b_k are in no slice.
C12_HalfOpenSlices ==
    pc = "StopIteration" =>
        LET cnt == Len(slices)
        IN  /\ cnt = (IF sorted_slices = <<>> THEN 0 ELSE Len(sorted_slices) - 1)
            /\ \A n \in 0..(cnt - 1) :
                 /\ RowsOfSlice(n) = {r \in DOMAIN indexed :
                        Boundary(n) <= indexed[r] /\ indexed[r] < Boundary(n + 1)}
                 /\ \A k \in DOMAIN slices[n + 1] :
                        /\ slices[n + 1][k].label = indexed[slices[n + 1][k].row]
                        /\ \A k2 \in DOMAIN slices[n + 1] :
                              k < k2 => slices[n + 1][k].row < slices[n + 1][k2].row
            /\ \A n, n2 \in 0..(cnt - 1) :
                 n # n2 => RowsOfSlice(n) \cap RowsOfSlice(n2) = {}
            /\ \A n \in 0..(cnt - 1) : \A r \in DOMAIN indexed :
                 (Boundary(n) < Boundary(n + 1) /\ indexed[r] = Boundary(n)) =>
                    /\ r \in RowsOfSlice(n)
                    /\ n > 0 => r \notin RowsOfSlice(n - 1)
            /\ \A r \in DOMAIN indexed :
                 (cnt > 0 /\ (indexed[r] < Boundary(0) \/ indexed[r] >= Boundary(cnt)))
                    => \A n \in 0..(cnt - 1) : r \notin RowsOfSlice(n)

\* two slices were yielded, a row sits on the middle boundary, and rows lie
\* before the first and on the last boundary
C12_Witness ==
    /\ pc = "StopIteration"
    /\ Len(slices) = 2
    /\ Boundary(0) < Boundary(1) /\ Boundary(1) < Boundary(2)
    /\ \E r \in DOMAIN indexed : indexed[r] = Boundary(1) /\ r \in RowsOfSlice(1)
    /\ \E r \in DOMAIN indexed : indexed[r] < Boundary(0)
    /\ \E r \in DOMAIN indexed : indexed[r] = Boundary(2)

(***************************************************************************)
(* The value of inter_daily_stability, checked under SpecRhythm.           *)
(***************************************************************************)
HoursPresent == {hourly[r].hour : r \in DOMAIN hourly}

\* number and sum of the values of hour h
HourCount(h) == Cardinality({r \in DOMAIN hourly : hourly[r].hour = h})
HourSum(h) == SumSeq([r \in DOMAIN hourly |->
                        IF hourly[r].hour = h THEN hourly[r].value ELSE 0])

RECURSIVE GCD(_, _)
GCD(a, b) == IF b = 0 THEN a ELSE GCD(b, a % b)

Reduced(f) == LET c == GCD(f.num, f.den)
              IN  [num |-> f.num \div c, den |-> f.den \div c]

RECURSIVE SumOverHours(_, _)
SumOverHours(H, P) ==
    IF H = {} THEN 0
    ELSE LET h == CHOOSE x \in H : TRUE
             dev == Len(hourly) * HourSum(h) - HourCount(h) * HourlySum
         IN  dev * dev * (P \div (HourCount(h) * HourCount(h)))
                + SumOverHours(H \ {h}, P)

RECURSIVE ProductOfSquares(_)
ProductOfSquares(H) ==
    IF H = {} THEN 1
    ELSE LET h == CHOOSE x \in H : TRUE
         IN  HourCount(h) * HourCount(h) * ProductOfSquares(H \ {h})

\* N * sum over the hours present of (mean_h - mean)^2, divided by
\* 24 * sum over the events of (x - mean)^2, as one fraction:
\* mean_h - mean = (N*S_h - n_h*S) / (n_h*N) and the sum of the squared
\* deviations is (N*Q - S*S) / N
ExpectedStability ==
    LET P == ProductOfSquares(HoursPresent)
        N == Len(hourly)
    IN  [num |-> SumOverHours(HoursPresent, P),
         den |-> 24 * (N * HourlySumSq - HourlySum * HourlySum) * P]

EveryHourMeanIsGlobalMean ==
    \A h \in HoursPresent : Len(hourly) * HourSum(h) = HourCount(h) * HourlySum

\* C13: on a table of non-zero variance inter_daily_stability returns
\* N * sum over the hours present of (mean_h - mean)^2 divided by
\* 24 * sum over the events of (x - mean)^2, hours without events adding
\* nothing; when the mean of every hour present is the global mean the
\* result is exactly 0.
C13_StabilityValue ==
    (stability.kind # "none" /\ ~ZeroVariance) =>
        /\ stability.kind = "value"
        /\ Reduced([num |-> stability.num, den |-> stability.den])
              = Reduced(ExpectedStability)
        /\ EveryHourMeanIsGlobalMean => stability.num = 0
        /\ stability.num = 0 => EveryHourMeanIsGlobalMean

\* two hours with the same mean and values that differ: IS is 0
C13_Witness ==
    /\ stability.kind = "value"
    /\ ~ZeroVariance
    /\ Cardinality(HoursPresent) = 2
    /\ EveryHourMeanIsGlobalMean
    /\ stability.num = 0

(***************************************************************************)
(* SpecPair: one window of rolling_srm_across_users (the rows of the       *)
(* window handed to calculate_srm_across_users) run on two tables, df and  *)
(* df_alt, that hold the same events of at least one user.                 *)
(***************************************************************************)
MaxPairRows == 4        \* rows of each of the two tables

PairWindows == {0, 1}

\* the events of the two tables: user 1 and user 2, target 1, on days in and
\* out of the two windows
PairUniverse ==
    << RollingUniverse[2], RollingUniverse[3], RollingUniverse[4],
       RollingUniverse[6], RollingUniverse[7] >>

UserIds == {1, 2}

\* the events of user u in a table
EventsOf(t, u) == SelectSeq(t, LAMBDA row : row.user_id = u)

InitPair ==
    /\ pc = "call"
    /\ df \in TablesOver(PairUniverse, MaxPairRows)
    /\ df_alt \in TablesOver(PairUniverse, MaxPairRows)
    /\ \E u \in UserIds : EventsOf(df, u) # <<>> /\ EventsOf(df, u) = EventsOf(df_alt, u)
    /\ min_samples \in RollingMinSamples
    /\ start_date \in StartDates
    /\ window \in PairWindows
    /\ across = NoTable
    /\ across_alt = NoTable
    /\ filter_in = <<>>
    /\ filter_df = <<>>
    /\ filtering_f = "keep_all"
    /\ is_recursive = FALSE
    /\ depth = 0
    /\ filtered = <<>>
    /\ indexed = <<>>
    /\ sorted_slices = <<>>
    /\ index = 0
    /\ slices = <<>>
    /\ srm_loop = <<>>
    /\ srm = [kind |-> "none", num |-> 0, den |-> 0]
    /\ how_many_days = 0
    /\ i = 0
    /\ srm_df = None
    /\ hourly = <<>>
    /\ stability = [kind |-> "none", num |-> 0, den |-> 0]
    /\ variability = [kind |-> "none", num |-> 0, den |-> 0]

\* w = df[...]; df_w = calculate_srm_across_users(w, ...), on both tables
AcrossUsers ==
    /\ pc = "call"
    /\ LET s == window_start(start_date, window)
           e == window_end(s)
       IN  /\ across' = calculate_srm_across_users(window_rows(df, s, e), min_samples)
           /\ across_alt' =
                 calculate_srm_across_users(window_rows(df_alt, s, e), min_samples)
    /\ pc' = "done"
    /\ UNCHANGED <<df, df_alt, min_samples, start_date, window>>
    /\ UNCHANGED <<filter_in, filter_df, filtering_f, is_recursive, depth, filtered,
                   indexed, sorted_slices, index, slices>>
    /\ UNCHANGED <<srm_loop, srm, how_many_days, i, srm_df, hourly, stability,
                   variability>>

NextPair == AcrossUsers

SpecPair == InitPair /\ [][NextPair]_vars

(***************************************************************************)
(* Independence of the users, checked under SpecPair.                      *)
(***************************************************************************)
\* what a call gives for user u: the error of the call, the srm of u's row,
\* or no row
OutcomeFor(u, result) ==
    IF result.kind # "table" THEN [kind |-> result.kind]
    ELSE IF \E r \in DOMAIN result.rows : result.rows[r].user_id = u
         THEN [kind |-> "row",
               srm |-> result.rows[CHOOSE r \in DOMAIN result.rows :
                                      result.rows[r].user_id = u].srm]
         ELSE [kind |-> "absent"]

AgreeOn(u) == EventsOf(df, u) = EventsOf(df_alt, u)

\* C14: the outcome for user u (its srm value, or the presence of its row)
\* is the same for any two inputs that agree on u's events, whatever the
\* events of the other users.
C14_UsersIndependent ==
    pc = "done" =>
        \A u \in UserIds : AgreeOn(u) => OutcomeFor(u, across) = OutcomeFor(u, across_alt)

\* same srm up to the representation of the fraction
SameOutcome(o1, o2) ==
    /\ o1.kind = o2.kind
    /\ o1.kind = "row" => o1.srm.num * o2.srm.den = o2.srm.num * o1.srm.den

\* what the code does: the ZeroDivisionError of calculate_srm for one user
\* ends the call for every user.  Only when both calls return a table is
\* the outcome for u the same; and a call fails only if calculate_srm fails
\* on the events of some user in the window.
IndependentWhenBothReturn ==
    pc = "done" =>
        LET s == window_start(start_date, window)
            e == window_end(s)
        IN  /\ \A u \in UserIds :
                 (AgreeOn(u) /\ across.kind = "table" /\ across_alt.kind = "table")
                    => SameOutcome(OutcomeFor(u, across), OutcomeFor(u, across_alt))
            /\ across.kind # "table" =>
                 \E u \in UserIds :
                    /\ window_rows(EventsOf(df, u), s, e) # <<>>
                    /\ calculate_srm(window_rows(EventsOf(df, u), s, e),
                                     min_samples).kind = across.kind

\* both calls return, user 1 has the same row in both, and only one of the
\* tables has a row of user 2
BothReturn ==
    /\ pc = "done"
    /\ across.kind = "table" /\ across_alt.kind = "table"
    /\ AgreeOn(1)
    /\ OutcomeFor(1, across).kind = "row"
    /\ OutcomeFor(2, across).kind = "row"
    /\ OutcomeFor(2, across_alt).kind = "absent"

(***************************************************************************)
(* The skip and the limits of _srm_preprocssing, checked under SpecSrm.    *)
(* Times are in minutes: 0.5 hours is 30.                                  *)
(***************************************************************************)
\* the samples of x that the comparisons z >= lower and z <= upper keep,
\* lower and upper being the doubles mean -/+ 1.5 * std of the doubles of x:
\* the samples less than 1.5 standard deviations from the mean, and of those
\* exactly 1.5 standard deviations from it the ones that the rounded limit
\* does not leave outside
KeptByLimits(x) ==
    LET mean == mean_double(Doubles(x))
        std == std_double(Doubles(x))
        lower == FSub(mean, FMul(OneAndHalf, std))
        upper == FAdd(mean, FMul(OneAndHalf, std))
    IN  SelectSeq(x, LAMBDA z :
            /\ Len(x) >= 2
            /\ IF LimitVs(z, x) = 0
               THEN FLeq(lower, Double(z)) /\ FLeq(Double(z), upper)
               ELSE LimitVs(z, x) < 0)

\* C15: the series is the whole sample when its standard deviation is
\* < 0.5; otherwise it is exactly the samples z with lower <= z <= upper,
\* both limits included, for lower and upper = mean -/+ 1.5 * std of the
\* unpurged sample; at a standard deviation of exactly 0.5 the purge is
\* done.  mean, std and the limits are the doubles that the code computes:
\* they decide where the exact numbers are equal (a computed std of exactly
\* 0.5 for 08:30, 09:00, 10:00; one just below 0.5 for 00:39, 01:09, 02:09,
\* whose exact standard deviation is 0.5 too).  A single sample has no
\* standard deviation: the test std < 0.5 fails and no z is within limits.
C15_SkipOrPurge ==
    pc = "done" =>
        \A g \in DOMAIN srm_loop :
            LET x == RawSeries(srm_loop[g].k)
                y == srm_loop[g].series
            IN  IF Len(x) <= 1 THEN y = <<>>
                ELSE IF StdVsHalf(x) < 0 THEN y = x
                ELSE IF StdVsHalf(x) > 0 THEN y = KeptByLimits(x)
                ELSE IF FLess(std_double(Doubles(x)), Half) THEN y = x
                ELSE y = KeptByLimits(x)

\* a sample whose standard deviation is exactly 0.5, as an exact number and
\* as the computed double, was purged and lost a value
C15_Witness ==
    /\ pc = "done"
    /\ \E g \in DOMAIN srm_loop :
          LET x == RawSeries(srm_loop[g].k)
          IN  /\ Len(x) >= 2
              /\ StdVsHalf(x) = 0
              /\ Len(srm_loop[g].series) < Len(x)
              /\ srm_loop[g].series # <<>>
              /\ ~FLess(std_double(Doubles(x)), Half)

(***************************************************************************)
(* Failure of a window of rolling_srm_across_users, checked under Spec.    *)
(***************************************************************************)
\* calculate_srm raises for some user with events in window j
WindowFails(j) ==
    \E u \in UsersInWindow(j) :
        calculate_srm(EventsInWindow(u, j), min_samples).kind = "ZeroDivisionError"

\* C16: the call returns a table only if calculate_srm succeeded for every
\* user of every window; when it fails for a user of window i the call ends
\* there with ZeroDivisionError: no later window is computed, nothing is
\* returned, and the rows of the windows before i are lost with it.
C16_NoPerWindowSkip ==
    /\ pc \in {"loop", "returned", "ZeroDivisionError"}
    /\ pc = "returned" =>
          /\ i = how_many_days
          /\ \A j \in 0..(how_many_days - 1) : ~WindowFails(j)
    /\ pc = "ZeroDivisionError" =>
          /\ i < how_many_days
          /\ WindowFails(i)
          /\ \A j \in 0..(i - 1) : ~WindowFails(j)
          /\ ~ENABLED Next
    /\ (pc = "loop" /\ i < how_many_days /\ WindowFails(i)) => ~ENABLED Return

\* the call failed in a later window, after rows of an earlier one were
\* computed
C16_Witness ==
    /\ pc = "ZeroDivisionError"
    /\ i >= 1
    /\ srm_df.rows # <<>>

(***************************************************************************)
(* Emptied groups, checked under SpecSrm.                                  *)
(***************************************************************************)
\* C17: the preprocessed series of every target is a non-empty part of the
\* target's decimal times, so that with min_samples = 1 every target of the
\* slice, one with a single event included, counts in the SRM average.
C17_NeverEmptiesAGroup ==
    pc = "done" =>
        \A g \in DOMAIN srm_loop :
            /\ srm_loop[g].series # <<>>
            /\ \A j \in DOMAIN srm_loop[g].series :
                  \E r \in DOMAIN RawSeries(srm_loop[g].k) :
                      RawSeries(srm_loop[g].k)[r] = srm_loop[g].series[j]
            /\ min_samples = 1 => srm_loop[g].appended
====
